---------------------------- MODULE Spec2Model ----------------------------
(***************************************************************************)
(* A model of the search players of GamesAI (Minimax, AlphaBeta,           *)
(* MinimaxPlus, MonteCarloTreeSearch) over small explicit games.           *)
(*                                                                         *)
(* A game is a finite rooted ordered tree of states 1..n.  State 1 is the  *)
(* start state, get_actions(s) enumerates the indexes of the successor     *)
(* list of s, get_result(s, a) is the a-th successor.  Numbers are exact   *)
(* rationals [num, den]; float("inf") is 1/0 and float("-inf") is -1/0.    *)
(***************************************************************************)
EXTENDS Integers, Sequences, FiniteSets, TLC

VARIABLES
    game,        \* the Game object: names, succ, term, util, mover, dist
    self,        \* game_name of the searching player
    max_depth,   \* Minimax/AlphaBeta/MinimaxPlus.max_depth
    heuristic,   \* .heuristic: state -> (name -> score); << >> is None
    root,        \* the state handed to get_action
    mmRet,       \* what Minimax.get_action returned (with the calls it made)
    abRet,       \* what AlphaBeta.get_action returned (with the calls it made)
    mpRet,       \* what MinimaxPlus.get_action returned (with the calls it made)
    n_rollouts,  \* MonteCarloTreeSearch.n_rollouts
    N,           \* .N: state -> visit count (0 where the defaultdict has no key)
    Q,           \* .Q: state -> total utility (0 where the defaultdict has no key)
    children,    \* .children: expanded state -> list of its child Nodes
    pc,          \* where MonteCarloTreeSearch.get_action is: "idle", "rollouts"
    rollouts,    \* the rollouts the running (or last) get_action has done
    nCalls,      \* the get_action calls made on the MonteCarloTreeSearch player
    lastPath,    \* do_rollout's path in the last rollout
    lastUtilities, \* do_rollout's utilities in the last rollout
    uctCalls,    \* the uct_select calls select made in the last rollout
    mctsRet,     \* what MonteCarloTreeSearch.get_action returned
    made,        \* the constructor call observed: the class and how it ended
    playState,   \* play_game's state
    playAction   \* play_game's last action, with the state it was taken in

searchVars == <<max_depth, heuristic, mmRet, abRet, mpRet>>
mctsVars == <<n_rollouts, N, Q, children, pc, rollouts, nCalls, lastPath,
              lastUtilities, uctCalls, mctsRet>>
driverVars == <<made, playState, playAction>>
vars == <<game, self, root, searchVars, mctsVars, driverVars>>

(***************************************************************************)
(* Bounds of the model.                                                    *)
(***************************************************************************)
MaxNodes == 7
MaxDepthBound == 3
MaxPlusNodes == 5
MaxMCTSNodes == 4
MaxRollouts == 4
MaxCalls == 2

(***************************************************************************)
(* Numbers.                                                                *)
(***************************************************************************)
RECURSIVE GCD(_, _)
GCD(a, b) == IF b = 0 THEN a ELSE GCD(b, a % b)

Abs(x) == IF x < 0 THEN -x ELSE x

Frac(n, d) ==
    LET g == GCD(Abs(n), Abs(d))
    IN  IF d < 0 THEN [num |-> (-n) \div g, den |-> (-d) \div g]
                 ELSE [num |-> n \div g, den |-> d \div g]

Num(n) == [num |-> n, den |-> 1]
PosInf == [num |-> 1, den |-> 0]
NegInf == [num |-> -1, den |-> 0]

Gt(a, b) == a.num * b.den > b.num * a.den
Lt(a, b) == Gt(b, a)
Ge(a, b) == a.num * b.den >= b.num * a.den
Le(a, b) == Ge(b, a)
Plus(a, b) == Frac(a.num * b.den + b.num * a.den, a.den * b.den)
Times(a, b) == Frac(a.num * b.num, a.den * b.den)
Neg(a) == [num |-> -a.num, den |-> a.den]

\* Python's min(a, b) and max(a, b): the first argument unless the second is
\* strictly smaller (larger).
PyMin(a, b) == IF Lt(b, a) THEN b ELSE a
PyMax(a, b) == IF Gt(b, a) THEN b ELSE a

\* min(list) and max(list) of a non-empty list of numbers.
RECURSIVE ListMin(_), ListMax(_)
ListMin(vs) == IF Len(vs) = 1 THEN vs[1] ELSE PyMin(vs[1], ListMin(Tail(vs)))
ListMax(vs) == IF Len(vs) = 1 THEN vs[1] ELSE PyMax(vs[1], ListMax(Tail(vs)))

(***************************************************************************)
(* The games.                                                              *)
(***************************************************************************)
Players == {"X", "O"}
Other(p) == IF p = "X" THEN "O" ELSE "X"

\* The utilities a terminal state gives one player.
Vals == {-1, 0, 1}

\* Ordered trees on 1..n in preorder: par[i] is the parent of i (0 for the
\* start state), and a new state hangs under a state of the rightmost path.
RECURSIVE AncSelf(_, _)
AncSelf(par, i) == IF i = 1 THEN {1} ELSE {i} \cup AncSelf(par, par[i])

RECURSIVE Trees(_)
Trees(n) ==
    IF n = 1 THEN {<<0>>}
    ELSE UNION {{Append(t, p) : p \in AncSelf(t, n - 1)} : t \in Trees(n - 1)}

RECURSIVE SortedSeq(_)
SortedSeq(S) ==
    IF S = {} THEN << >>
    ELSE LET m == CHOOSE x \in S : \A y \in S : x <= y
         IN  <<m>> \o SortedSeq(S \ {m})

SuccOf(par) ==
    [s \in 1..Len(par) |-> SortedSeq({c \in 1..Len(par) : par[c] = s})]

RECURSIVE DepthOf(_, _)
DepthOf(par, s) == IF s = 1 THEN 0 ELSE 1 + DepthOf(par, par[s])

\* Who moves in a state of a game in which the two players alternate and "X"
\* starts.
AlternatingMover(par) ==
    [s \in 1..Len(par) |-> IF DepthOf(par, s) % 2 = 0 THEN "X" ELSE "O"]

ZeroSum(v) == [p \in Players |-> IF p = "X" THEN Num(v) ELSE Num(-v)]

(***************************************************************************)
(* The Game interface.                                                     *)
(***************************************************************************)
States == DOMAIN game.succ
get_start_state == 1
get_player_playing(state) == game.mover[state]
get_actions(state) == [a \in 1..Len(game.succ[state]) |-> a]
get_result(state, action) == game.succ[state][action]
is_terminal_state(state) == game.term[state]
get_utilities(state) == game.util[state]
get_random_action_distribution(state) == game.dist[state]


(***************************************************************************)
(* utils.argmax over the values func gives the indexes, in order: the      *)
(* first index whose value is strictly above every value before it.  With  *)
(* no value above float("-inf") max_idx is never bound and the return      *)
(* raises UnboundLocalError.                                               *)
(***************************************************************************)
RECURSIVE argmax_loop(_, _, _, _, _)
argmax_loop(indexes, values, i, max_value, max_idx) ==
    IF i > Len(indexes)
    THEN IF max_idx = 0 THEN [kind |-> "UnboundLocalError", action |-> 0]
                        ELSE [kind |-> "action", action |-> indexes[max_idx]]
    ELSE IF Gt(values[i], max_value)
         THEN argmax_loop(indexes, values, i + 1, values[i], i)
         ELSE argmax_loop(indexes, values, i + 1, max_value, max_idx)

\* argmax with ">=" for ">": the last of the indexes with the highest value.
RECURSIVE argmax_last_loop(_, _, _, _, _)
argmax_last_loop(indexes, values, i, max_value, max_idx) ==
    IF i > Len(indexes)
    THEN IF max_idx = 0 THEN [kind |-> "UnboundLocalError", action |-> 0]
                        ELSE [kind |-> "action", action |-> indexes[max_idx]]
    ELSE IF Ge(values[i], max_value)
         THEN argmax_last_loop(indexes, values, i + 1, values[i], i)
         ELSE argmax_last_loop(indexes, values, i + 1, max_value, max_idx)

argmax_last(indexes, values) ==
    IF Len(indexes) = 0 THEN [kind |-> "ValueError", action |-> 0]
    ELSE argmax_last_loop(indexes, values, 1, NegInf, 0)

argmax(indexes, values) ==
    IF Len(indexes) = 0 THEN [kind |-> "ValueError", action |-> 0]
    ELSE argmax_loop(indexes, values, 1, NegInf, 0)

(***************************************************************************)
(* Minimax.                                                                *)
(***************************************************************************)
RECURSIVE Minimax_min_value(_, _), Minimax_max_value(_, _)
Minimax_min_value(state, depth) ==
    IF is_terminal_state(state) THEN get_utilities(state)[self]
    ELSE IF Ge(Num(depth), max_depth) THEN heuristic[state][self]
    ELSE ListMin([a \in DOMAIN get_actions(state) |->
            Minimax_max_value(get_result(state, get_actions(state)[a]), depth + 1)])

Minimax_max_value(state, depth) ==
    IF is_terminal_state(state) THEN get_utilities(state)[self]
    ELSE IF Ge(Num(depth), max_depth) THEN heuristic[state][self]
    ELSE ListMax([a \in DOMAIN get_actions(state) |->
            Minimax_min_value(get_result(state, get_actions(state)[a]), depth + 1)])

\* The calls of min_value ("MIN") and max_value ("MAX") that the evaluation of
\* a state makes, each with the value it returns.
RECURSIVE Minimax_calls(_, _, _)
Minimax_calls(state, depth, layer) ==
    {[state |-> state, depth |-> depth, layer |-> layer,
      value |-> IF layer = "MIN" THEN Minimax_min_value(state, depth)
                                 ELSE Minimax_max_value(state, depth)]}
    \cup
    IF is_terminal_state(state) \/ Ge(Num(depth), max_depth) THEN {}
    ELSE UNION {Minimax_calls(get_result(state, get_actions(state)[a]), depth + 1,
                              IF layer = "MIN" THEN "MAX" ELSE "MIN")
                : a \in DOMAIN get_actions(state)}

Minimax_get_action(state) ==
    LET actions == get_actions(state)
        r == argmax(actions, [a \in DOMAIN actions |->
                 Minimax_min_value(get_result(state, actions[a]), 1)])
    IN  [kind |-> r.kind, action |-> r.action,
         calls |-> UNION {Minimax_calls(get_result(state, actions[a]), 1, "MIN")
                          : a \in DOMAIN actions}]

(***************************************************************************)
(* AlphaBeta.  A call returns [kind, value, calls]: kind "float" with the  *)
(* number returned, kind "dict" when the call returned heuristic(state)    *)
(* itself (the mapping, not a number), kind "TypeError" when it raised.    *)
(* Comparing a dict with a float (min, max, >) raises TypeError.  calls    *)
(* are the calls made so far, each with its window and its outcome.        *)
(***************************************************************************)
AlphaBeta_call(state, depth, layer, alpha, beta, kind, value) ==
    [state |-> state, depth |-> depth, layer |-> layer, alpha |-> alpha,
     beta |-> beta, kind |-> kind, value |-> value]

RECURSIVE AlphaBeta_min_value(_, _, _, _), AlphaBeta_max_value(_, _, _, _)
RECURSIVE AlphaBeta_min_loop(_, _, _, _, _, _, _), AlphaBeta_max_loop(_, _, _, _, _, _, _)

\* min_value's loop with "value < alpha" for "value <= alpha".
AlphaBeta_min_loop_strict(state, depth, alpha, beta, i, value, calls) ==
    LET actions == get_actions(state) IN
    IF i > Len(actions) THEN [kind |-> "float", value |-> value, calls |-> calls]
    ELSE LET successor_state == get_result(state, actions[i])
             r == AlphaBeta_max_value(successor_state, depth + 1, alpha, beta)
             seen == calls \cup r.calls
         IN  IF r.kind # "float"
             THEN [kind |-> "TypeError", value |-> value, calls |-> seen]
             ELSE LET v == PyMin(value, r.value)
                  IN  IF Lt(v, alpha)
                      THEN [kind |-> "float", value |-> v, calls |-> seen]
                      ELSE AlphaBeta_min_loop(state, depth, alpha, PyMin(beta, v),
                                              i + 1, v, seen)

\* The for loop of min_value from its i-th action on, with the running minimum
\* and the calls made so far.
AlphaBeta_min_loop(state, depth, alpha, beta, i, value, calls) ==
    LET actions == get_actions(state) IN
    IF i > Len(actions) THEN [kind |-> "float", value |-> value, calls |-> calls]
    ELSE LET successor_state == get_result(state, actions[i])
             r == AlphaBeta_max_value(successor_state, depth + 1, alpha, beta)
             seen == calls \cup r.calls
         IN  IF r.kind # "float"
             THEN [kind |-> "TypeError", value |-> value, calls |-> seen]
             ELSE LET v == PyMin(value, r.value)
                  IN  IF Le(v, alpha)
                      THEN [kind |-> "float", value |-> v, calls |-> seen]
                      ELSE AlphaBeta_min_loop(state, depth, alpha, PyMin(beta, v),
                                              i + 1, v, seen)

AlphaBeta_max_loop(state, depth, alpha, beta, i, value, calls) ==
    LET actions == get_actions(state) IN
    IF i > Len(actions) THEN [kind |-> "float", value |-> value, calls |-> calls]
    ELSE LET successor_state == get_result(state, actions[i])
             r == AlphaBeta_min_value(successor_state, depth + 1, alpha, beta)
             seen == calls \cup r.calls
         IN  IF r.kind # "float"
             THEN [kind |-> "TypeError", value |-> value, calls |-> seen]
             ELSE LET v == PyMax(value, r.value)
                  IN  IF Ge(v, beta)
                      THEN [kind |-> "float", value |-> v, calls |-> seen]
                      ELSE AlphaBeta_max_loop(state, depth, PyMax(alpha, v), beta,
                                              i + 1, v, seen)

AlphaBeta_min_value(state, depth, alpha, beta) ==
    LET r == IF is_terminal_state(state)
             THEN [kind |-> "float", value |-> get_utilities(state)[self], calls |-> {}]
             ELSE IF Ge(Num(depth), max_depth)
             THEN [kind |-> "dict", value |-> heuristic[state][self], calls |-> {}]
             ELSE AlphaBeta_min_loop(state, depth, alpha, beta, 1, PosInf, {})
    IN  [kind |-> r.kind, value |-> r.value,
         calls |-> r.calls \cup
             {AlphaBeta_call(state, depth, "MIN", alpha, beta, r.kind, r.value)}]

AlphaBeta_max_value(state, depth, alpha, beta) ==
    LET r == IF is_terminal_state(state)
             THEN [kind |-> "float", value |-> get_utilities(state)[self], calls |-> {}]
             ELSE IF Ge(Num(depth), max_depth)
             THEN [kind |-> "dict", value |-> heuristic[state][self], calls |-> {}]
             ELSE AlphaBeta_max_loop(state, depth, alpha, beta, 1, NegInf, {})
    IN  [kind |-> r.kind, value |-> r.value,
         calls |-> r.calls \cup
             {AlphaBeta_call(state, depth, "MAX", alpha, beta, r.kind, r.value)}]

\* argmax over func = min_value(get_result(state, action), 1, -inf, inf): the
\* values are computed one action after the other, and the first that is not
\* a number makes "value > max_value" raise.
RECURSIVE AlphaBeta_root_loop(_, _, _, _)
AlphaBeta_root_loop(state, i, values, calls) ==
    LET actions == get_actions(state) IN
    IF i > Len(actions)
    THEN LET r == argmax(actions, values)
         IN  [kind |-> r.kind, action |-> r.action, calls |-> calls]
    ELSE LET r == AlphaBeta_min_value(get_result(state, actions[i]), 1, NegInf, PosInf)
         IN  IF r.kind # "float"
             THEN [kind |-> "TypeError", action |-> 0, calls |-> calls \cup r.calls]
             ELSE AlphaBeta_root_loop(state, i + 1, Append(values, r.value),
                                      calls \cup r.calls)

AlphaBeta_get_action(state) == AlphaBeta_root_loop(state, 1, << >>, {})


(***************************************************************************)
(* MinimaxPlus.  best_utilities_for_player returns a mapping from the      *)
(* players to numbers; the model returns it with the calls made, each with *)
(* the mapping it returned.                                                *)
(***************************************************************************)
RECURSIVE best_utilities_for_player(_, _)
RECURSIVE MinimaxPlus_chance_loop(_, _, _, _, _), MinimaxPlus_player_loop(_, _, _, _, _, _)

\* The chance loop that adds the successors' numbers without their
\* probabilities.
MinimaxPlus_chance_loop_unweighted(state, depth, i, utilities, calls) ==
    LET distribution == get_random_action_distribution(state) IN
    IF i > Len(distribution) THEN [value |-> utilities, calls |-> calls]
    ELSE LET next_state == get_result(state, distribution[i].action)
             r == best_utilities_for_player(next_state, depth + 1)
         IN  MinimaxPlus_chance_loop(state, depth, i + 1,
                 [player \in DOMAIN utilities |->
                     Plus(utilities[player], r.value[player])],
                 calls \cup r.calls)

\* The loop over the items of the chance distribution, from the i-th on.
MinimaxPlus_chance_loop(state, depth, i, utilities, calls) ==
    LET distribution == get_random_action_distribution(state) IN
    IF i > Len(distribution) THEN [value |-> utilities, calls |-> calls]
    ELSE LET next_state == get_result(state, distribution[i].action)
             r == best_utilities_for_player(next_state, depth + 1)
         IN  MinimaxPlus_chance_loop(state, depth, i + 1,
                 [player \in DOMAIN utilities |->
                     Plus(utilities[player], Times(distribution[i].prob, r.value[player]))],
                 calls \cup r.calls)

\* The player loop with "value >= best_value": the last of the best actions.
MinimaxPlus_player_loop_last(state, depth, i, best_value, best_utilities, calls) ==
    LET actions == get_actions(state)
        player_playing == get_player_playing(state)
    IN
    IF i > Len(actions) THEN [value |-> best_utilities, calls |-> calls]
    ELSE LET next_state == get_result(state, actions[i])
             r == best_utilities_for_player(next_state, depth + 1)
             value == r.value[player_playing]
         IN  IF Ge(value, best_value)
             THEN MinimaxPlus_player_loop(state, depth, i + 1, value, r.value,
                                          calls \cup r.calls)
             ELSE MinimaxPlus_player_loop(state, depth, i + 1, best_value,
                                          best_utilities, calls \cup r.calls)

\* The player loop that reads the searching player's coordinate whoever moves.
MinimaxPlus_player_loop_self(state, depth, i, best_value, best_utilities, calls) ==
    LET actions == get_actions(state) IN
    IF i > Len(actions) THEN [value |-> best_utilities, calls |-> calls]
    ELSE LET next_state == get_result(state, actions[i])
             r == best_utilities_for_player(next_state, depth + 1)
             value == r.value[self]
         IN  IF Gt(value, best_value)
             THEN MinimaxPlus_player_loop(state, depth, i + 1, value, r.value,
                                          calls \cup r.calls)
             ELSE MinimaxPlus_player_loop(state, depth, i + 1, best_value,
                                          best_utilities, calls \cup r.calls)

\* The loop over the actions of the player playing, from the i-th on;
\* best_utilities is << >> while it is not bound.
MinimaxPlus_player_loop(state, depth, i, best_value, best_utilities, calls) ==
    LET actions == get_actions(state)
        player_playing == get_player_playing(state)
    IN
    IF i > Len(actions) THEN [value |-> best_utilities, calls |-> calls]
    ELSE LET next_state == get_result(state, actions[i])
             r == best_utilities_for_player(next_state, depth + 1)
             value == r.value[player_playing]
         IN  IF Gt(value, best_value)
             THEN MinimaxPlus_player_loop(state, depth, i + 1, value, r.value,
                                          calls \cup r.calls)
             ELSE MinimaxPlus_player_loop(state, depth, i + 1, best_value,
                                          best_utilities, calls \cup r.calls)

best_utilities_for_player(state, depth) ==
    LET r == IF is_terminal_state(state)
             THEN [value |-> get_utilities(state), calls |-> {}]
             ELSE IF Ge(Num(depth), max_depth)
             THEN [value |-> [player \in Players |-> heuristic[state][player]],
                   calls |-> {}]
             ELSE IF get_player_playing(state) = "None"
             THEN MinimaxPlus_chance_loop(state, depth, 1,
                      [player \in Players |-> Num(0)], {})
             ELSE MinimaxPlus_player_loop(state, depth, 1, NegInf, << >>, {})
    IN  [value |-> r.value,
         calls |-> r.calls \cup {[state |-> state, depth |-> depth, value |-> r.value]}]

MinimaxPlus_get_action(state) ==
    LET actions == get_actions(state)
        rs == [a \in DOMAIN actions |->
                 best_utilities_for_player(get_result(state, actions[a]), 1)]
        r == argmax(actions, [a \in DOMAIN actions |-> rs[a].value[self]])
    IN  [kind |-> r.kind, action |-> r.action,
         calls |-> UNION {rs[a].calls : a \in DOMAIN actions}]

(***************************************************************************)
(* Minimax and AlphaBeta side by side: a two-player zero-sum game in which *)
(* the players alternate, a depth bound with a heuristic or neither, and   *)
(* the two players built with the same arguments.  The number of a state   *)
(* that no search reads (the heuristic of a state off the cutoff depth,    *)
(* the utility of a non-terminal state) is 0.                              *)
(***************************************************************************)
NoRet == [kind |-> "none"]

\* No MonteCarloTreeSearch player is in play.
\* No constructor call is observed and play_game has not started.
NoDriver ==
    /\ made = NoRet
    /\ playState = 1
    /\ playAction = NoRet

NoMCTS ==
    /\ n_rollouts = 0
    /\ N = << >>
    /\ Q = << >>
    /\ children = << >>
    /\ pc = "idle"
    /\ rollouts = 0
    /\ nCalls = 0
    /\ lastPath = << >>
    /\ lastUtilities = << >>
    /\ uctCalls = 0
    /\ mctsRet = NoRet

Leaves(par) == {s \in 1..Len(par) : \A c \in 1..Len(par) : par[c] # s}
Height(par) ==
    CHOOSE h \in 0..Len(par) :
        /\ \E s \in 1..Len(par) : DepthOf(par, s) = h
        /\ \A s \in 1..Len(par) : DepthOf(par, s) <= h

DepthChoices(par) ==
    {PosInf} \cup {Num(d) : d \in {d \in 1..MaxDepthBound : d < Height(par)}}

\* The states whose utility (a leaf) or heuristic (a state at the cutoff
\* depth) a search from the start state with depth bound d can read.
ReadStates(par, d) ==
    {s \in 2..Len(par) :
        /\ Ge(d, Num(DepthOf(par, s)))
        /\ s \in Leaves(par) \/ d = Num(DepthOf(par, s))}

TreeGame(par, val) ==
    [names |-> Players,
     succ |-> SuccOf(par),
     term |-> [s \in 1..Len(par) |-> s \in Leaves(par)],
     util |-> [s \in 1..Len(par) |->
                 ZeroSum(IF s \in Leaves(par) /\ s \in DOMAIN val THEN val[s] ELSE 0)],
     mover |-> AlternatingMover(par),
     dist |-> [s \in 1..Len(par) |-> << >>]]

TreeHeuristic(par, d, val) ==
    IF d = PosInf THEN << >>
    ELSE [s \in 1..Len(par) |->
            ZeroSum(IF s \notin Leaves(par) /\ s \in DOMAIN val THEN val[s] ELSE 0)]

InitSearch ==
    \E n \in 2..MaxNodes : \E par \in Trees(n) : \E d \in DepthChoices(par) :
    \E val \in [ReadStates(par, d) -> Vals] :
        /\ game = TreeGame(par, val)
        /\ self = "X"
        /\ NoDriver
        /\ max_depth = d
        /\ heuristic = TreeHeuristic(par, d, val)
        /\ root = 1
        /\ mmRet = NoRet
        /\ abRet = NoRet
        /\ mpRet = NoRet
        /\ NoMCTS

MinimaxGetAction ==
    /\ mmRet = NoRet
    /\ ~is_terminal_state(root)
    /\ mmRet' = Minimax_get_action(root)
    /\ UNCHANGED <<game, self, max_depth, heuristic, root, abRet, mpRet, mctsVars, driverVars>>

AlphaBetaGetAction ==
    /\ abRet = NoRet
    /\ ~is_terminal_state(root)
    /\ abRet' = AlphaBeta_get_action(root)
    /\ UNCHANGED <<game, self, max_depth, heuristic, root, mmRet, mpRet, mctsVars, driverVars>>

NextSearch == MinimaxGetAction \/ AlphaBetaGetAction

SpecSearch == InitSearch /\ [][NextSearch]_vars


(***************************************************************************)
(* Claims about Minimax and AlphaBeta (SpecSearch).                        *)
(***************************************************************************)
BothReturned == mmRet # NoRet /\ abRet # NoRet
Cutoff(state, depth) == ~is_terminal_state(state) /\ Ge(Num(depth), max_depth)
Expanded(state, depth) == ~is_terminal_state(state) /\ ~Ge(Num(depth), max_depth)
CallOn(calls, state) == CHOOSE c \in calls : c.state = state
Called(calls, state) == \E c \in calls : c.state = state
Successors(state) == {get_result(state, get_actions(state)[a]) : a \in DOMAIN get_actions(state)}
Place(c) == [state |-> c.state, depth |-> c.depth, layer |-> c.layer]

\* C1: AlphaBeta.get_action returns the same root action as Minimax.get_action
\* built with the same depth bound and heuristic (unbounded depth with no
\* heuristic, or any finite depth bound with any heuristic).
C1_SameRootAction ==
    BothReturned => abRet.kind = "action" /\ abRet.action = mmRet.action

\* C1, the part the code keeps: with unbounded depth the two root actions agree.
C1_SameRootActionUnbounded ==
    BothReturned /\ max_depth = PosInf
        => abRet.kind = "action" /\ abRet.action = mmRet.action

\* The i-th successor of the state of call c, and what AlphaBeta's call on it
\* returned.
ChildCall(c, i) == CallOn(abRet.calls, get_result(c.state, get_actions(c.state)[i]))
RECURSIVE RunningMin(_, _), RunningMax(_, _)
RunningMin(c, i) ==
    IF i = 0 THEN PosInf ELSE PyMin(RunningMin(c, i - 1), ChildCall(c, i).value)
RunningMax(c, i) ==
    IF i = 0 THEN NegInf ELSE PyMax(RunningMax(c, i - 1), ChildCall(c, i).value)
\* The loop of call c stops after its i-th action.
Prunes(c, i) ==
    IF c.layer = "MIN" THEN Le(RunningMin(c, i), c.alpha)
                       ELSE Ge(RunningMax(c, i), c.beta)
\* How many successors of the state of call c AlphaBeta evaluated.
Evaluated(c) ==
    Cardinality({i \in DOMAIN get_actions(c.state) :
                    Called(abRet.calls, get_result(c.state, get_actions(c.state)[i]))})

\* C2: the states AlphaBeta evaluates min_value/max_value on are states Minimax
\* evaluates (in the same layer, at the same depth), so it evaluates no more of
\* them; in a state it expands it evaluates the successors in enumeration order
\* and stops as soon as the running minimum is <= alpha (MIN layer) or the
\* running maximum is >= beta (MAX layer), and not before.
C2_AlphaBetaSubset ==
    BothReturned =>
        /\ {Place(c) : c \in abRet.calls} \subseteq {Place(c) : c \in mmRet.calls}
        /\ Cardinality(abRet.calls) <= Cardinality(mmRet.calls)
        /\ \A c \in abRet.calls :
             Expanded(c.state, c.depth) =>
               LET k == Evaluated(c)
                   n == Len(get_actions(c.state))
               IN  /\ k >= 1
                   /\ \A i \in 1..n :
                        Called(abRet.calls, get_result(c.state, get_actions(c.state)[i]))
                            <=> i <= k
                   /\ \A i \in 1..(k - 1) :
                        ChildCall(c, i).kind = "float" /\ ~Prunes(c, i)
                   /\ c.kind = "float" =>
                        /\ ChildCall(c, k).kind = "float"
                        /\ k = n \/ Prunes(c, k)
                        /\ c.value = IF c.layer = "MIN" THEN RunningMin(c, k)
                                                        ELSE RunningMax(c, k)
                   /\ c.kind # "float" => ChildCall(c, k).kind # "float"

\* C2's case: AlphaBeta returned an action after a MIN layer cut its loop short
\* on value <= alpha, so that Minimax evaluated a state AlphaBeta did not.
C2_Witness ==
    /\ BothReturned
    /\ abRet.kind = "action"
    /\ Cardinality(abRet.calls) < Cardinality(mmRet.calls)
    /\ \E c \in abRet.calls :
         /\ c.layer = "MIN" /\ Expanded(c.state, c.depth)
         /\ Evaluated(c) < Len(get_actions(c.state))

\* The same for a MAX layer that cut its loop short on value >= beta.
C2_WitnessMax ==
    /\ BothReturned
    /\ abRet.kind = "action"
    /\ \E c \in abRet.calls :
         /\ c.layer = "MAX" /\ Expanded(c.state, c.depth)
         /\ Evaluated(c) < Len(get_actions(c.state))

\* The MIN-value Minimax computed for the successor of root action a.
RootValue(a) == CallOn(mmRet.calls, get_result(root, a)).value

\* C3: Minimax.get_action returns the action whose successor has the maximal
\* MIN-value, the first such action in enumeration order; a value is the
\* utility of the searching player in a terminal state, the heuristic's entry
\* for the searching player's name at the depth cutoff, and otherwise the
\* minimum (MIN layer) or maximum (MAX layer) over the successors' values of
\* the other layer.
C3_MinimaxFirstBest ==
    mmRet # NoRet =>
        /\ mmRet.kind = "action"
        /\ \E i \in DOMAIN get_actions(root) : get_actions(root)[i] = mmRet.action
        /\ \A i \in DOMAIN get_actions(root) :
             LET a == get_actions(root)[i]
             IN  /\ Le(RootValue(a), RootValue(mmRet.action))
                 /\ a < mmRet.action => Lt(RootValue(a), RootValue(mmRet.action))
        /\ \A c \in mmRet.calls :
             /\ c.layer = (IF c.depth % 2 = 1 THEN "MIN" ELSE "MAX")
             /\ is_terminal_state(c.state) => c.value = get_utilities(c.state)[self]
             /\ Cutoff(c.state, c.depth) => c.value = heuristic[c.state][self]
             /\ Expanded(c.state, c.depth) =>
                  /\ \A s \in Successors(c.state) :
                       /\ Called(mmRet.calls, s)
                       /\ CallOn(mmRet.calls, s).layer # c.layer
                       /\ CallOn(mmRet.calls, s).depth = c.depth + 1
                       /\ IF c.layer = "MIN"
                          THEN Le(c.value, CallOn(mmRet.calls, s).value)
                          ELSE Ge(c.value, CallOn(mmRet.calls, s).value)
                  /\ \E s \in Successors(c.state) :
                       c.value = CallOn(mmRet.calls, s).value

\* C3's case: a depth-limited search that read the heuristic, with two root
\* actions tied for the maximal value, and Minimax returned.
C3_Witness ==
    /\ mmRet # NoRet
    /\ mmRet.kind = "action"
    /\ max_depth # PosInf
    /\ \E c \in mmRet.calls : Cutoff(c.state, c.depth)
    /\ \E i \in DOMAIN get_actions(root) :
         /\ get_actions(root)[i] # mmRet.action
         /\ RootValue(get_actions(root)[i]) = RootValue(mmRet.action)


(***************************************************************************)
(* MinimaxPlus beside Minimax: a game of two players and chance in which   *)
(* get_player_playing decides who moves ("None": chance), with utilities   *)
(* that are zero-sum or shared, and a depth bound with a heuristic or      *)
(* neither.  The searching player is the one to move in the root.          *)
(***************************************************************************)
Movers == {"X", "O", "None"}
Weights == {1, 2}
PlusVectors == {u \in [Players -> Vals] : u["X"] + u["O"] = 0 \/ u["X"] = u["O"]}
NumVector(u) == [p \in DOMAIN u |-> Num(u[p])]

\* The states below the start state that a search with depth bound d expands.
ExpandedStates(par, d) ==
    {s \in 2..Len(par) : s \notin Leaves(par) /\ Gt(d, Num(DepthOf(par, s)))}

RECURSIVE SumSeq(_)
SumSeq(ws) == IF Len(ws) = 0 THEN 0 ELSE ws[1] + SumSeq(Tail(ws))

\* The assignments of a weight to every action of every chance state.
RECURSIVE WeightChoices(_, _)
WeightChoices(succ, chance) ==
    IF chance = {} THEN {<< >>}
    ELSE LET s == CHOOSE x \in chance : TRUE
         IN  {(s :> ws) @@ f : ws \in [1..Len(succ[s]) -> Weights],
                               f \in WeightChoices(succ, chance \ {s})}

PlusGame(par, mv, w, val) ==
    [names |-> Players,
     succ |-> SuccOf(par),
     term |-> [s \in 1..Len(par) |-> s \in Leaves(par)],
     util |-> [s \in 1..Len(par) |->
                 IF s \in Leaves(par) /\ s \in DOMAIN val THEN NumVector(val[s])
                 ELSE [p \in Players |-> Num(0)]],
     mover |-> [s \in 1..Len(par) |-> IF s \in DOMAIN mv THEN mv[s] ELSE "X"],
     dist |-> [s \in 1..Len(par) |->
                 IF s \in DOMAIN w
                 THEN [i \in 1..Len(w[s]) |->
                         [action |-> i, prob |-> Frac(w[s][i], SumSeq(w[s]))]]
                 ELSE << >>]]

PlusHeuristic(par, d, val) ==
    IF d = PosInf THEN << >>
    ELSE [s \in 1..Len(par) |->
            IF s \notin Leaves(par) /\ s \in DOMAIN val THEN NumVector(val[s])
            ELSE [p \in Players |-> Num(0)]]

InitPlus ==
    \E n \in 2..MaxPlusNodes : \E par \in Trees(n) : \E d \in DepthChoices(par) :
    \E mv \in [ExpandedStates(par, d) -> Movers] :
    \E w \in WeightChoices(SuccOf(par), {s \in DOMAIN mv : mv[s] = "None"}) :
    \E val \in [ReadStates(par, d) -> PlusVectors] :
        /\ game = PlusGame(par, mv, w, val)
        /\ self = "X"
        /\ NoDriver
        /\ max_depth = d
        /\ heuristic = PlusHeuristic(par, d, val)
        /\ root = 1
        /\ mmRet = NoRet
        /\ abRet = NoRet
        /\ mpRet = NoRet
        /\ NoMCTS

MinimaxPlusGetAction ==
    /\ mpRet = NoRet
    /\ ~is_terminal_state(root)
    /\ get_player_playing(root) = self
    /\ mpRet' = MinimaxPlus_get_action(root)
    /\ UNCHANGED <<game, self, max_depth, heuristic, root, mmRet, abRet, mctsVars, driverVars>>

NextPlus == MinimaxGetAction \/ MinimaxPlusGetAction

SpecPlus == InitPlus /\ [][NextPlus]_vars


(***************************************************************************)
(* Claims about MinimaxPlus (SpecPlus).                                    *)
(***************************************************************************)
ZeroSumGame ==
    \A s \in States :
        is_terminal_state(s) =>
            Plus(get_utilities(s)["X"], get_utilities(s)["O"]) = Num(0)
NoChanceNodes ==
    \A s \in States : ~is_terminal_state(s) => get_player_playing(s) # "None"
\* The player to move changes with every move.
StrictAlternation ==
    \A s \in States : \A c \in Successors(s) :
        ~is_terminal_state(s) /\ ~is_terminal_state(c)
            => get_player_playing(c) = Other(get_player_playing(s))
PlusBothReturned == mmRet # NoRet /\ mpRet # NoRet

\* C4: on a deterministic two-player zero-sum game with no chance nodes,
\* whatever the order in which get_player_playing lets the players move,
\* MinimaxPlus.get_action at unbounded depth returns the action that
\* Minimax.get_action at unbounded depth returns.
C4_PlusEqualsMinimax ==
    PlusBothReturned /\ ZeroSumGame /\ NoChanceNodes /\ max_depth = PosInf
        => mpRet.kind = "action" /\ mmRet.kind = "action"
           /\ mpRet.action = mmRet.action

\* C4 as amended: the same for the games in which the two players move in
\* strict alternation.
C4_PlusEqualsMinimaxAlternating ==
    PlusBothReturned /\ ZeroSumGame /\ NoChanceNodes /\ max_depth = PosInf
    /\ StrictAlternation
        => mpRet.kind = "action" /\ mmRet.kind = "action"
           /\ mpRet.action = mmRet.action

\* C4's case: both searches ran to the end of a strictly alternating zero-sum
\* game without chance, through a state of the opponent with two actions, and
\* the root actions lead to different values.
C4_Witness ==
    /\ PlusBothReturned /\ ZeroSumGame /\ NoChanceNodes /\ max_depth = PosInf
    /\ StrictAlternation
    /\ \E c \in mpRet.calls :
         ~is_terminal_state(c.state) /\ Len(get_actions(c.state)) >= 2
    /\ \E i, j \in DOMAIN get_actions(root) :
         RootValue(get_actions(root)[i]) # RootValue(get_actions(root)[j])

\* The mapping MinimaxPlus computed for the i-th successor of the state of
\* call c.
PlusChild(c, i) ==
    CallOn(mpRet.calls, get_result(c.state, get_actions(c.state)[i])).value

\* C5: where a player p is to move (the state neither terminal nor at the
\* cutoff), best_utilities_for_player returns, unchanged in every coordinate,
\* the mapping of the successor of the first action, in enumeration order,
\* whose mapping is maximal at p's coordinate.
C5_PlayerBranchFirstBest ==
    mpRet # NoRet =>
        \A c \in mpRet.calls :
            Expanded(c.state, c.depth) /\ get_player_playing(c.state) # "None" =>
                LET p == get_player_playing(c.state)
                    n == Len(get_actions(c.state))
                IN  \E i \in 1..n :
                        /\ \A j \in 1..n : Le(PlusChild(c, j)[p], PlusChild(c, i)[p])
                        /\ \A j \in 1..(i - 1) : Lt(PlusChild(c, j)[p], PlusChild(c, i)[p])
                        /\ c.value = PlusChild(c, i)

\* C5's case: a player to move with two actions tied at its own coordinate
\* whose mappings differ at the other player's.
C5_Witness ==
    /\ mpRet # NoRet
    /\ \E c \in mpRet.calls :
         /\ Expanded(c.state, c.depth) /\ get_player_playing(c.state) # "None"
         /\ LET p == get_player_playing(c.state)
            IN  \E i, j \in 1..Len(get_actions(c.state)) :
                    /\ i < j
                    /\ PlusChild(c, i)[p] = PlusChild(c, j)[p]
                    /\ PlusChild(c, i) # PlusChild(c, j)
                    /\ c.value = PlusChild(c, i)

\* The sum over the first i items of the chance distribution in the state of
\* call c of probability times player's coordinate in the successor's mapping.
RECURSIVE ExpectedValue(_, _, _)
ExpectedValue(c, player, i) ==
    IF i = 0 THEN Num(0)
    ELSE LET item == get_random_action_distribution(c.state)[i]
             next == CallOn(mpRet.calls, get_result(c.state, item.action)).value
         IN  Plus(ExpectedValue(c, player, i - 1), Times(item.prob, next[player]))

\* C6: at a chance node that is neither terminal nor at the cutoff the mapping
\* returned has an entry for every player of the game, the sum over the
\* actions of the distribution of probability(action) times the player's
\* coordinate in the successor's mapping.
C6_ChanceExpectation ==
    mpRet # NoRet =>
        \A c \in mpRet.calls :
            Expanded(c.state, c.depth) /\ get_player_playing(c.state) = "None" =>
                /\ DOMAIN c.value = Players
                /\ \A player \in Players :
                     c.value[player] =
                         ExpectedValue(c, player,
                             Len(get_random_action_distribution(c.state)))

\* C6's case: a chance node with two actions of different probabilities whose
\* successors' mappings differ.
C6_Witness ==
    /\ mpRet # NoRet
    /\ \E c \in mpRet.calls :
         /\ Expanded(c.state, c.depth) /\ get_player_playing(c.state) = "None"
         /\ \E i, j \in DOMAIN get_random_action_distribution(c.state) :
              LET di == get_random_action_distribution(c.state)[i]
                  dj == get_random_action_distribution(c.state)[j]
              IN  /\ di.prob # dj.prob
                  /\ PlusChild(c, di.action)["X"] # PlusChild(c, dj.action)["X"]
                  /\ PlusChild(c, di.action)["O"] # PlusChild(c, dj.action)["O"]


(***************************************************************************)
(* MonteCarloTreeSearch.  A Node is [state, player]; two Nodes are equal   *)
(* when their states are, so N, Q and children are keyed by the state.     *)
(***************************************************************************)
Node(state, player) == [state |-> state, player |-> player]

Node_find_children(node) ==
    [a \in DOMAIN get_actions(node.state) |->
        Node(get_result(node.state, get_actions(node.state)[a]), node.player)]

\* find_random_child: the Nodes random.choice can lead to.
Node_find_random_child(node) ==
    {Node(get_result(node.state, get_actions(node.state)[a]),
          get_player_playing(get_result(node.state, get_actions(node.state)[a])))
     : a \in DOMAIN get_actions(node.state)}

\* An is_terminal that is true only of a state without legal actions.
Node_is_terminal_no_actions(node) == Len(get_actions(node.state)) = 0

Node_is_terminal(node) == is_terminal_state(node.state)

\* exploration_weight = 1.4, as tenths.
exploration_weight == 14

\* round(ln(n) * 10^8) for n = 1..16.
LnTable ==
    <<0, 69314718, 109861229, 138629436, 160943791, 179175947, 194591015,
      207944154, 219722458, 230258509, 239789527, 248490665, 256494936,
      263905733, 270805020, 277258872>>

\* The largest r with r * r <= x, searched between lo and hi.
RECURSIVE IsqrtBetween(_, _, _)
IsqrtBetween(x, lo, hi) ==
    IF lo = hi THEN lo
    ELSE LET mid == (lo + hi + 1) \div 2
         IN  IF mid * mid <= x THEN IsqrtBetween(x, mid, hi)
                               ELSE IsqrtBetween(x, lo, mid - 1)
Isqrt(x) == IsqrtBetween(x, 0, 32768)

\* uct(n) in units of 10^-5: Q[n] / N[n] + exploration_weight *
\* sqrt(log_N_vertex / N[n]).  For the visit counts the model reaches (at most
\* 16) this orders any two children as the floating-point values do.
uct(node, n) ==
    10 * ((Q[n.state].num * 10000) \div (Q[n.state].den * N[n.state]))
    + exploration_weight * Isqrt(LnTable[N[node.state]] \div N[n.state])

\* max(self.children[node], key=uct): the first child with the highest uct.
RECURSIVE uct_max(_, _, _)
uct_max(node, i, best) ==
    LET cs == children[node.state] IN
    IF i > Len(cs) THEN cs[best]
    ELSE IF uct(node, cs[i]) > uct(node, cs[best])
         THEN uct_max(node, i + 1, i)
         ELSE uct_max(node, i + 1, best)

uct_select(node) ==
    LET cs == children[node.state] IN
    IF \E i \in DOMAIN cs : cs[i].state \notin DOMAIN children
    THEN [kind |-> "AssertionError"]
    ELSE IF N[node.state] = 0 THEN [kind |-> "ValueError"]
    ELSE IF \E i \in DOMAIN cs : N[cs[i].state] = 0
    THEN [kind |-> "ZeroDivisionError"]
    ELSE [kind |-> "Node", node |-> uct_max(node, 2, 1)]

\* A select that finds no child unexplored.
Unexplored_none(node) == {}

\* A select that takes self.children[node] without removing the expanded keys.
Unexplored_all(node) ==
    {children[node.state][i] : i \in DOMAIN children[node.state]}

\* self.children[node] - self.children.keys(): the children not yet expanded.
Unexplored(node) ==
    {children[node.state][i] : i \in
        {i \in DOMAIN children[node.state] :
            children[node.state][i].state \notin DOMAIN children}}

\* select: every path it can return (unexplored.pop() takes any unexplored
\* child), with the number of uct_select calls made, or the error raised.
RECURSIVE select(_, _, _)
select(node, path0, ucts) ==
    LET path1 == Append(path0, node) IN
    IF node.state \notin DOMAIN children \/ Len(children[node.state]) = 0
    THEN {[kind |-> "path", path |-> path1, ucts |-> ucts]}
    ELSE IF Unexplored(node) # {}
    THEN {[kind |-> "path", path |-> Append(path1, n), ucts |-> ucts]
          : n \in Unexplored(node)}
    ELSE LET r == uct_select(node)
         IN  IF r.kind # "Node" THEN {[kind |-> r.kind, path |-> path1, ucts |-> ucts + 1]}
             ELSE select(r.node, path1, ucts + 1)

\* An expand that starts the table afresh at every expansion.
expand_afresh(node) == node.state :> Node_find_children(node)

\* expand: children after the call.
expand(node) ==
    IF node.state \in DOMAIN children THEN children
    ELSE (node.state :> Node_find_children(node)) @@ children

\* simulate: the utilities of the terminal states a random playout can end in.
RECURSIVE simulate(_)
simulate(node) ==
    IF Node_is_terminal(node) THEN {get_utilities(node.state)}
    ELSE UNION {simulate(n) : n \in Node_find_random_child(node)}

\* A backpropagate that counts the visit of the ancestors of the leaf only.
backpropagate_N_ancestors(path0, n0) ==
    [s \in DOMAIN n0 |->
        IF \E i \in 1..(Len(path0) - 1) : path0[i].state = s
        THEN n0[s] + 1 ELSE n0[s]]

\* A backpropagate that counts the visit of the leaf only.
backpropagate_N_leaf(path0, n0) ==
    IF Len(path0) = 0 THEN n0
    ELSE [n0 EXCEPT ![path0[Len(path0)].state] = @ + 1]

\* backpropagate: N and Q after the call.
RECURSIVE backpropagate_N(_, _), backpropagate_Q(_, _, _)
backpropagate_N(path0, n0) ==
    IF Len(path0) = 0 THEN n0
    ELSE LET node == path0[Len(path0)]
         IN  backpropagate_N(SubSeq(path0, 1, Len(path0) - 1),
                             [n0 EXCEPT ![node.state] = @ + 1])
backpropagate_Q(path0, utils, q0) ==
    IF Len(path0) = 0 THEN q0
    ELSE LET node == path0[Len(path0)]
         IN  backpropagate_Q(SubSeq(path0, 1, Len(path0) - 1), utils,
                             [q0 EXCEPT ![node.state] = Plus(@, utils[node.player])])

\* score in get_action: the average utility of the successor of an action, or
\* float("-inf") for a successor never visited.
score(state, action) ==
    LET n == Node(get_result(state, action), self)
    IN  IF N[n.state] = 0 THEN NegInf
        ELSE Frac(Q[n.state].num, Q[n.state].den * N[n.state])


(***************************************************************************)
(* One MonteCarloTreeSearch player for "X" over its lifetime: get_action   *)
(* is called on states in which "X" is to move, or on terminal states, and *)
(* runs its rollouts one after the other.  The games are zero-sum, the     *)
(* players alternate, and a state may be terminal (won) while actions are  *)
(* still legal in it.                                                      *)
(***************************************************************************)
Inner(par) == {s \in 2..Len(par) : s \notin Leaves(par)}

MCTSGame(par, won, val) ==
    [names |-> Players,
     succ |-> SuccOf(par),
     term |-> [s \in 1..Len(par) |-> s \in Leaves(par) \cup won],
     util |-> [s \in 1..Len(par) |-> ZeroSum(IF s \in DOMAIN val THEN val[s] ELSE 0)],
     mover |-> AlternatingMover(par),
     dist |-> [s \in 1..Len(par) |-> << >>]]

InitMCTS ==
    \E n \in 2..MaxMCTSNodes : \E par \in Trees(n) : \E won \in SUBSET Inner(par) :
    \E val \in [Leaves(par) \cup won -> Vals] : \E r \in 0..MaxRollouts :
        /\ game = MCTSGame(par, won, val)
        /\ self = "X"
        /\ NoDriver
        /\ root = 1
        /\ max_depth = PosInf
        /\ heuristic = << >>
        /\ mmRet = NoRet
        /\ abRet = NoRet
        /\ mpRet = NoRet
        /\ n_rollouts = r
        /\ N = [s \in 1..n |-> 0]
        /\ Q = [s \in 1..n |-> Num(0)]
        /\ children = << >>
        /\ pc = "idle"
        /\ rollouts = 0
        /\ nCalls = 0
        /\ lastPath = << >>
        /\ lastUtilities = << >>
        /\ uctCalls = 0
        /\ mctsRet = NoRet

\* get_action up to its loop: a terminal state raises RuntimeError.
MCTSGetAction ==
    /\ pc = "idle"
    /\ nCalls < MaxCalls
    /\ \E state \in States :
         /\ is_terminal_state(state) \/ get_player_playing(state) = self
         /\ root' = state
         /\ nCalls' = nCalls + 1
         /\ rollouts' = 0
         /\ IF Node_is_terminal(Node(state, self))
            THEN /\ mctsRet' = [kind |-> "RuntimeError"]
                 /\ pc' = "idle"
            ELSE /\ mctsRet' = NoRet
                 /\ pc' = "rollouts"
    /\ UNCHANGED <<game, self, driverVars, searchVars, n_rollouts, N, Q, children, lastPath,
                   lastUtilities, uctCalls>>

\* One pass of get_action's loop: do_rollout(node).
DoRollout ==
    /\ pc = "rollouts"
    /\ rollouts < n_rollouts
    /\ \E sel \in select(Node(root, self), << >>, 0) :
         IF sel.kind # "path"
         THEN /\ mctsRet' = [kind |-> sel.kind]
              /\ pc' = "idle"
              /\ UNCHANGED <<N, Q, children, rollouts, lastPath, lastUtilities,
                             uctCalls>>
         ELSE LET leaf == sel.path[Len(sel.path)]
              IN  \E utils \in simulate(leaf) :
                    /\ children' = expand(leaf)
                    /\ N' = backpropagate_N(sel.path, N)
                    /\ Q' = backpropagate_Q(sel.path, utils, Q)
                    /\ lastPath' = sel.path
                    /\ lastUtilities' = utils
                    /\ uctCalls' = sel.ucts
                    /\ rollouts' = rollouts + 1
                    /\ UNCHANGED <<pc, mctsRet>>
    /\ UNCHANGED <<game, self, driverVars, root, searchVars, n_rollouts, nCalls>>

\* get_action after its loop.
MCTSReturn ==
    /\ pc = "rollouts"
    /\ rollouts = n_rollouts
    /\ pc' = "idle"
    /\ IF root \notin DOMAIN children
       THEN \E n \in Node_find_random_child(Node(root, self)) :
                mctsRet' = [kind |-> "Node", node |-> n]
       ELSE LET actions == get_actions(root)
                r == argmax(actions, [a \in DOMAIN actions |-> score(root, actions[a])])
            IN  mctsRet' = [kind |-> r.kind, action |-> r.action]
    /\ UNCHANGED <<game, self, driverVars, root, searchVars, n_rollouts, N, Q, children,
                   rollouts, nCalls, lastPath, lastUtilities, uctCalls>>

NextMCTS == MCTSGetAction \/ DoRollout \/ MCTSReturn

SpecMCTS == InitMCTS /\ [][NextMCTS]_vars


(***************************************************************************)
(* Claims about MonteCarloTreeSearch.                                      *)
(***************************************************************************)
\* get_action has returned (or raised) for the non-terminal state root.
MCTSReturned ==
    /\ pc = "idle"
    /\ mctsRet.kind # "none"
    /\ ~is_terminal_state(root)

LegalAction(ret) ==
    /\ ret.kind = "action"
    /\ \E a \in DOMAIN get_actions(root) : get_actions(root)[a] = ret.action

\* The action is the first one of the highest average Q/N.
FirstBestAverage(action) ==
    \A a \in DOMAIN get_actions(root) :
        /\ Ge(score(root, action), score(root, get_actions(root)[a]))
        /\ a < action => Gt(score(root, action), score(root, get_actions(root)[a]))

\* C7: for every n_rollouts >= 1 and every non-terminal state, get_action
\* completes without error and returns a member of get_actions(state): the
\* action whose successor has the highest average Q/N among the root's
\* children, the first in enumeration order on ties.
C7_ReturnsBestAction ==
    (MCTSReturned /\ n_rollouts >= 1) =>
        /\ LegalAction(mctsRet)
        /\ FirstBestAverage(mctsRet.action)

\* With at least two rollouts a fresh player does return that action.
C7_ReturnsBestActionTwoRollouts ==
    (MCTSReturned /\ n_rollouts >= 2 /\ nCalls = 1) =>
        /\ LegalAction(mctsRet)
        /\ FirstBestAverage(mctsRet.action)

\* One rollout on a state not yet in the tree: argmax finds no value above
\* float("-inf") and raises.
C7_Unbound ==
    /\ MCTSReturned
    /\ n_rollouts = 1
    /\ mctsRet.kind = "UnboundLocalError"

\* C8: when the root state is not a key of the children table after the
\* rollouts, get_action on a non-terminal state returns a legal action, an
\* element of get_actions(state).
C8_FallbackLegalAction ==
    (MCTSReturned /\ root \notin DOMAIN children) => LegalAction(mctsRet)

\* The fallback returns a Node wrapping a successor state.
C8_ReturnsNode ==
    /\ MCTSReturned
    /\ root \notin DOMAIN children
    /\ mctsRet.kind = "Node"

\* The player who was to move in the state from which lastPath[i] was reached;
\* the root is the searching player's own position.
Owner(p, i) == IF i = 1 THEN self ELSE get_player_playing(p[i - 1].state)

\* C9: backpropagation, for every state on the selection path from root to
\* leaf, increments N by exactly 1 and adds to Q the terminal utility of the
\* player who was to move in the state from which that node was reached.
C9_BackpropagateOwner ==
    [][rollouts' = rollouts + 1 =>
        \A i \in DOMAIN lastPath' :
            LET s == lastPath'[i].state
            IN  /\ N'[s] = N[s] + 1
                /\ Q'[s] = Plus(Q[s], lastUtilities'[Owner(lastPath', i)])]_vars

\* What backpropagation does: N grows by 1 and Q by the searching player's
\* utility on the whole path, and nothing changes off the path.
C9_BackpropagateSelf ==
    [][rollouts' = rollouts + 1 =>
        \A s \in States :
            IF \E i \in DOMAIN lastPath' : lastPath'[i].state = s
            THEN /\ N'[s] = N[s] + 1
                 /\ Q'[s] = Plus(Q[s], lastUtilities'[self])
            ELSE /\ N'[s] = N[s]
                 /\ Q'[s] = Q[s]]_vars

\* A rollout has backed a decisive result up to a node reached by a move of
\* the opponent.
C9_OpponentNode ==
    /\ Len(lastPath) >= 3
    /\ get_player_playing(lastPath[2].state) # self
    /\ lastUtilities[self] # Num(0)

RootChildren == {get_result(root, get_actions(root)[a]) : a \in DOMAIN get_actions(root)}

\* C10: after a fresh player expands a state with k children (the first
\* rollout of its first call), each of the next k rollouts visits a child
\* never visited before, so no child is visited twice before all have been
\* visited once; uct_select is applied from the following rollout on.
C10_FirstVisits ==
    (nCalls = 1 /\ root \in DOMAIN children) =>
        LET k == Cardinality(RootChildren)
        IN  /\ rollouts >= 1
            /\ rollouts <= k + 1 =>
                 /\ \A c \in RootChildren : N[c] <= 1
                 /\ Cardinality({c \in RootChildren : N[c] = 1}) = rollouts - 1
                 /\ uctCalls = 0
            /\ rollouts > k + 1 =>
                 /\ \A c \in RootChildren : N[c] >= 1
                 /\ uctCalls >= 1

\* The k rollouts after the expansion are done: each of k >= 2 children has
\* exactly one visit and uct_select has not been applied.
C10_Witness ==
    /\ nCalls = 1
    /\ root \in DOMAIN children
    /\ Cardinality(RootChildren) >= 2
    /\ rollouts = Cardinality(RootChildren) + 1
    /\ \A c \in RootChildren : N[c] = 1
    /\ uctCalls = 0

\* The rollout after those: uct_select chose a child for its second visit.
C10_WitnessUCT ==
    /\ nCalls = 1
    /\ Cardinality(RootChildren) >= 2
    /\ rollouts = Cardinality(RootChildren) + 2
    /\ uctCalls >= 1
    /\ \E c \in RootChildren : N[c] = 2

\* C11: expand records successors only for a leaf that is neither already
\* expanded nor terminal: a terminal state never gets successor states
\* recorded as its children, and a selection path never continues past a
\* terminal state.
C11_TerminalNotExpanded ==
    /\ \A s \in DOMAIN children : is_terminal_state(s) => Len(children[s]) = 0
    /\ \A i \in DOMAIN lastPath :
           i < Len(lastPath) => ~is_terminal_state(lastPath[i].state)

\* A terminal state that still has legal actions was expanded, and a later
\* selection path ran through it to one of its successors.
C11_PathPastTerminal ==
    \E i \in DOMAIN lastPath :
        /\ i < Len(lastPath)
        /\ is_terminal_state(lastPath[i].state)
        /\ lastPath[i].state \in DOMAIN children
        /\ Len(children[lastPath[i].state]) > 0

\* On games whose terminal states have no legal actions the statement holds.
TerminalStatesHaveNoActions ==
    \A s \in States : is_terminal_state(s) => Len(get_actions(s)) = 0

C11_TerminalNotExpandedNoActions ==
    TerminalStatesHaveNoActions => C11_TerminalNotExpanded

\* C12: across any sequence of get_action calls on one player, with any
\* root states, the tables grow monotonically: the key set of children never
\* loses a key, children[s] never changes once set, and N[s] never decreases.
C12_TablesGrow ==
    [][/\ DOMAIN children \subseteq DOMAIN children'
       /\ \A s \in DOMAIN children : children'[s] = children[s]
       /\ \A s \in States : N'[s] >= N[s]]_vars

\* A second call, from another root, has run a rollout on top of the tables
\* the first call from the start state left behind.
C12_Witness ==
    /\ nCalls = 2
    /\ root # get_start_state
    /\ rollouts >= 1
    /\ get_start_state \in DOMAIN children
    /\ root \in DOMAIN children
    /\ N[get_start_state] > N[root]

\* C13: get_action called on a terminal state fails with an error before
\* running any rollout, leaving N, Q and children exactly as they were
\* before the call.
C13_TerminalRootRaises ==
    [][(nCalls' = nCalls + 1 /\ is_terminal_state(root')) =>
          /\ mctsRet'.kind = "RuntimeError"
          /\ pc' = "idle"
          /\ rollouts' = 0
          /\ N' = N
          /\ Q' = Q
          /\ children' = children]_vars

\* The call on a terminal state came after a call that had filled the
\* tables, and the terminal state is one that still has legal actions.
C13_Witness ==
    /\ nCalls = 2
    /\ pc = "idle"
    /\ is_terminal_state(root)
    /\ Len(get_actions(root)) > 0
    /\ mctsRet.kind = "RuntimeError"
    /\ DOMAIN children # {}
    /\ \E s \in States : N[s] >= 2


(***************************************************************************)
(* Construction of the players: the constructor of one of the four classes *)
(* is called once with a game of any number of player names, a depth bound *)
(* (float("inf") or a number) and a heuristic (None or a function).        *)
(***************************************************************************)
MaxNames == 3

NamePool == <<"X", "O", "A", "B", "C">>
NamesOf(k) == {NamePool[i] : i \in 1..k}

\* Minimax.__init__: "constructed" or the exception raised.
Minimax_init(g, depth_bound, h) ==
    IF (depth_bound = PosInf) # (h = << >>) THEN "ValueError"
    ELSE IF Cardinality(g.names) # 2 THEN "ValueError"
    ELSE "constructed"

AlphaBeta_init(g, depth_bound, h) ==
    IF (depth_bound = PosInf) # (h = << >>) THEN "ValueError"
    ELSE IF Cardinality(g.names) # 2 THEN "ValueError"
    ELSE "constructed"

\* A MinimaxPlus.__init__ that makes Minimax's test of the player names.
MinimaxPlus_init_two_players(g, depth_bound, h) == Minimax_init(g, depth_bound, h)

MinimaxPlus_init(g, depth_bound, h) ==
    IF (depth_bound = PosInf) # (h = << >>) THEN "ValueError"
    ELSE "constructed"

MonteCarloTreeSearch_init(g) ==
    IF Cardinality(g.names) # 2 THEN "ValueError"
    ELSE "constructed"

\* A game of k player names with a single, terminal state.
NamedGame(k) ==
    [names |-> NamesOf(k),
     succ |-> << << >> >>,
     term |-> <<TRUE>>,
     util |-> << [p \in NamesOf(k) |-> Num(0)] >>,
     mover |-> <<"X">>,
     dist |-> << << >> >>]

HeuristicChoices(k) ==
    {<< >>} \cup {[s \in {1} |-> [p \in NamesOf(k) |-> Num(v)]] : v \in Vals}

InitConstruct ==
    \E k \in 0..MaxNames : \E h \in HeuristicChoices(k) :
    \E d \in {PosInf} \cup {Num(b) : b \in 0..MaxDepthBound} :
        /\ game = NamedGame(k)
        /\ self = "X"
        /\ max_depth = d
        /\ heuristic = h
        /\ root = 1
        /\ mmRet = NoRet
        /\ abRet = NoRet
        /\ mpRet = NoRet
        /\ NoMCTS
        /\ NoDriver

ConstructMinimax ==
    /\ made = NoRet
    /\ made' = [kind |-> Minimax_init(game, max_depth, heuristic), agent |-> "Minimax"]
    /\ UNCHANGED <<game, self, root, searchVars, mctsVars, playState, playAction>>

ConstructAlphaBeta ==
    /\ made = NoRet
    /\ made' = [kind |-> AlphaBeta_init(game, max_depth, heuristic), agent |-> "AlphaBeta"]
    /\ UNCHANGED <<game, self, root, searchVars, mctsVars, playState, playAction>>

ConstructMinimaxPlus ==
    /\ made = NoRet
    /\ made' = [kind |-> MinimaxPlus_init(game, max_depth, heuristic),
                agent |-> "MinimaxPlus"]
    /\ UNCHANGED <<game, self, root, searchVars, mctsVars, playState, playAction>>

ConstructMCTS ==
    /\ made = NoRet
    /\ made' = [kind |-> MonteCarloTreeSearch_init(game), agent |-> "MCTS"]
    /\ UNCHANGED <<game, self, root, searchVars, mctsVars, playState, playAction>>

NextConstruct ==
    ConstructMinimax \/ ConstructAlphaBeta \/ ConstructMinimaxPlus \/ ConstructMCTS

SpecConstruct == InitConstruct /\ [][NextConstruct]_vars

FiniteDepth == max_depth # PosInf
HeuristicSupplied == heuristic # << >>

\* C14: construction of Minimax, AlphaBeta and MinimaxPlus fails whenever
\* exactly one of a finite depth bound and a heuristic is supplied, and
\* construction of Minimax, AlphaBeta and MonteCarloTreeSearch fails whenever
\* the game does not have exactly two player names; in all other cases
\* construction succeeds.
C14_ConstructionFails ==
    made.kind # "none" =>
        LET oneWithoutTheOther ==
                \/ FiniteDepth /\ ~HeuristicSupplied
                \/ ~FiniteDepth /\ HeuristicSupplied
            notTwoNames == Cardinality(game.names) # 2
            fails ==
                \/ made.agent \in {"Minimax", "AlphaBeta", "MinimaxPlus"}
                   /\ oneWithoutTheOther
                \/ made.agent \in {"Minimax", "AlphaBeta", "MCTS"} /\ notTwoNames
        IN  made.kind = IF fails THEN "ValueError" ELSE "constructed"

\* MinimaxPlus was constructed for a game of three names, with a depth bound
\* and a heuristic: a case in which the other three constructors fail.
C14_Witness ==
    /\ made.kind # "none"
    /\ made.agent = "MinimaxPlus"
    /\ made.kind = "constructed"
    /\ Cardinality(game.names) = 3
    /\ FiniteDepth
    /\ HeuristicSupplied

\* A depth bound without a heuristic made a constructor fail in a game of two
\* names.
C14_WitnessFails ==
    /\ made.kind # "none"
    /\ made.agent = "AlphaBeta"
    /\ made.kind = "ValueError"
    /\ Cardinality(game.names) = 2
    /\ FiniteDepth
    /\ ~HeuristicSupplied


(***************************************************************************)
(* Chance distributions as the game hands them over: the probabilities of  *)
(* a chance state are whatever get_random_action_distribution returns, and *)
(* need not sum to 1.  MinimaxPlus searches from the start state while     *)
(* play_game runs the game with players that return any legal action.     *)
(***************************************************************************)
MaxChanceNodes == 4

ChanceProbs == {Frac(1, 2), Num(1)}

\* The assignments of a probability to every action of every chance state.
RECURSIVE ProbChoices(_, _)
ProbChoices(succ, chance) ==
    IF chance = {} THEN {<< >>}
    ELSE LET s == CHOOSE x \in chance : TRUE
         IN  {(s :> ps) @@ f : ps \in [1..Len(succ[s]) -> ChanceProbs],
                               f \in ProbChoices(succ, chance \ {s})}

ChanceGame(par, mv, pr, val) ==
    [names |-> Players,
     succ |-> SuccOf(par),
     term |-> [s \in 1..Len(par) |-> s \in Leaves(par)],
     util |-> [s \in 1..Len(par) |->
                 IF s \in DOMAIN val THEN NumVector(val[s])
                 ELSE [p \in Players |-> Num(0)]],
     mover |-> [s \in 1..Len(par) |-> IF s \in DOMAIN mv THEN mv[s] ELSE "X"],
     dist |-> [s \in 1..Len(par) |->
                 IF s \in DOMAIN pr
                 THEN [i \in 1..Len(pr[s]) |-> [action |-> i, prob |-> pr[s][i]]]
                 ELSE << >>]]

InitChance ==
    \E n \in 2..MaxChanceNodes : \E par \in Trees(n) :
    \E mv \in [Inner(par) -> Movers] :
    \E pr \in ProbChoices(SuccOf(par), {s \in DOMAIN mv : mv[s] = "None"}) :
    \E val \in [Leaves(par) -> PlusVectors] :
        /\ game = ChanceGame(par, mv, pr, val)
        /\ self = "X"
        /\ NoDriver
        /\ max_depth = PosInf
        /\ heuristic = << >>
        /\ root = 1
        /\ mmRet = NoRet
        /\ abRet = NoRet
        /\ mpRet = NoRet
        /\ NoMCTS

RECURSIVE SumProbs(_)
SumProbs(distribution) ==
    IF Len(distribution) = 0 THEN Num(0)
    ELSE Plus(distribution[1].prob, SumProbs(Tail(distribution)))

\* random.choices(list(distribution.keys()), weights = ...)[0]: the actions
\* it can return, or the error it raises when the weights do not add up to
\* more than zero.
random_choices(distribution) ==
    IF ~Gt(SumProbs(distribution), Num(0)) THEN {[kind |-> "ValueError"]}
    ELSE {[kind |-> "action", action |-> distribution[i].action]
          : i \in {j \in DOMAIN distribution : Gt(distribution[j].prob, Num(0))}}

\* A pass of play_game's loop in a state that is not terminal.
PlayGameStep ==
    /\ ~is_terminal_state(playState)
    /\ playAction.kind \in {"none", "action"}
    /\ IF get_player_playing(playState) = "None"
       THEN \E r \in random_choices(get_random_action_distribution(playState)) :
              /\ playAction' = [kind |-> r.kind, state |-> playState,
                                action |-> IF r.kind = "action" THEN r.action ELSE 0]
              /\ playState' = IF r.kind = "action"
                              THEN get_result(playState, r.action) ELSE playState
       ELSE \E a \in DOMAIN get_actions(playState) :
              /\ playAction' = [kind |-> "action", state |-> playState,
                                action |-> get_actions(playState)[a]]
              /\ playState' = get_result(playState, get_actions(playState)[a])
    /\ UNCHANGED <<game, self, root, searchVars, mctsVars, made>>

NextChance == MinimaxPlusGetAction \/ PlayGameStep

SpecChance == InitChance /\ [][NextChance]_vars

\* The distribution of a chance state is malformed: its weights do not sum
\* to 1, or one of its keys is not a legal action.
Malformed(s) ==
    LET distribution == get_random_action_distribution(s) IN
    \/ SumProbs(distribution) # Num(1)
    \/ \E i \in DOMAIN distribution :
         \A a \in DOMAIN get_actions(s) : get_actions(s)[a] # distribution[i].action

\* best_utilities_for_player went through the distribution of chance state s.
ConsumedBySearch(s) ==
    /\ get_player_playing(s) = "None"
    /\ ~is_terminal_state(s)
    /\ \E c \in mpRet.calls : c.state = s /\ ~Ge(Num(c.depth), max_depth)

\* C15: whenever a chance distribution is consumed, by
\* best_utilities_for_player at a chance node or by play_game when sampling,
\* a malformed distribution produces a fatal error at that point instead of
\* a utility vector or a sampled action.
C15_MalformedIsFatal ==
    /\ (mpRet.kind # "none" /\ \E s \in States : ConsumedBySearch(s) /\ Malformed(s))
          => mpRet.kind # "action"
    /\ (/\ playAction.kind # "none"
        /\ get_player_playing(playAction.state) = "None"
        /\ Malformed(playAction.state))
          => playAction.kind # "action"

\* The search went through a distribution whose weights do not sum to 1 and
\* returned an action.
C15_SearchConsumesMalformed ==
    /\ mpRet.kind = "action"
    /\ \E s \in States : ConsumedBySearch(s) /\ Malformed(s)

\* play_game sampled an action from such a distribution and played it.
C15_DriverSamplesMalformed ==
    /\ playAction.kind = "action"
    /\ get_player_playing(playAction.state) = "None"
    /\ Malformed(playAction.state)
    /\ playState = get_result(playAction.state, playAction.action)


\* C16: after every completed rollout every state that is a key of the
\* children table has N >= 1; so uct_select is only ever evaluated on a
\* parent with N >= 1 whose children are all expanded and have N >= 1, and
\* raises neither its AssertionError nor a division by zero nor a log of
\* zero, over any sequence of get_action calls.
C16_ExpandedVisited ==
    /\ [](/\ \A s \in DOMAIN children : N[s] >= 1
          /\ mctsRet.kind \notin {"AssertionError", "ValueError", "ZeroDivisionError"})
    /\ [][rollouts' = rollouts + 1 =>
            \A i \in 1..uctCalls' :
                /\ N[lastPath'[i].state] >= 1
                /\ \A j \in DOMAIN children[lastPath'[i].state] :
                       LET c == children[lastPath'[i].state][j].state
                       IN  c \in DOMAIN children /\ N[c] >= 1]_vars

\* In a second call, from another root, a rollout went through uct_select.
C16_Witness ==
    /\ nCalls = 2
    /\ root # get_start_state
    /\ get_start_state \in DOMAIN children
    /\ rollouts >= 1
    /\ uctCalls >= 1


\* do_rollout(root) runs to its end: select returns a path, whichever child
\* it pops, and simulate reaches a terminal state from the leaf.
RolloutCompletes ==
    /\ select(Node(root, self), << >>, 0) # {}
    /\ \A sel \in select(Node(root, self), << >>, 0) :
           /\ sel.kind = "path"
           /\ simulate(sel.path[Len(sel.path)]) # {}

\* C17: on a finite acyclic game a get_action call on a non-terminal root
\* ends after exactly n_rollouts rollouts; each rollout's selection path
\* starts at the root, each later element is a successor state of the element
\* before it, no state occurs twice on the path, and so every rollout adds
\* exactly 1 to N[root]: N[root] is n_rollouts larger after the call.  While
\* the call runs, the next rollout runs to its end.
C17_ExactlyNRollouts ==
    /\ [][/\ rollouts' = rollouts + 1 =>
              /\ lastPath'[1].state = root
              /\ \A i \in 2..Len(lastPath') :
                     \E a \in DOMAIN get_actions(lastPath'[i - 1].state) :
                         lastPath'[i].state =
                             get_result(lastPath'[i - 1].state,
                                        get_actions(lastPath'[i - 1].state)[a])
              /\ \A i, j \in DOMAIN lastPath' :
                     i # j => lastPath'[i].state # lastPath'[j].state
              /\ N'[root] = N[root] + 1
              /\ rollouts < n_rollouts
          /\ (pc = "idle" /\ pc' = "rollouts") =>
              /\ ~is_terminal_state(root')
              /\ rollouts' = 0
              /\ N' = N
          /\ (pc = "rollouts" /\ pc' = "idle") =>
              /\ rollouts = n_rollouts
              /\ rollouts' = rollouts
              /\ N' = N
          /\ pc = "rollouts" => root' = root]_vars
    /\ [](nCalls = 1 /\ ~is_terminal_state(root) => N[root] = rollouts)
    /\ [](pc = "rollouts" =>
             /\ rollouts <= n_rollouts
             /\ rollouts < n_rollouts => RolloutCompletes)

\* A second call has ended after three rollouts or more, the last of them on
\* a path of three states.
C17_Witness ==
    /\ nCalls = 2
    /\ pc = "idle"
    /\ ~is_terminal_state(root)
    /\ mctsRet.kind = "action"
    /\ n_rollouts >= 3
    /\ rollouts = n_rollouts
    /\ Len(lastPath) >= 3
    /\ N[root] >= n_rollouts


\* The sum of N over a list of child Nodes.
RECURSIVE SumN(_)
SumN(cs) == IF Len(cs) = 0 THEN 0 ELSE N[cs[1].state] + SumN(Tail(cs))

\* N[p] = 1 + the sum of N[c] over the children c of p.
VisitBalance(p) == N[p] = 1 + SumN(children[p])

\* The state a state was reached from, and the states above it.
Parent(s) ==
    CHOOSE p \in States : \E a \in DOMAIN get_actions(p) :
        get_result(p, get_actions(p)[a]) = s

RECURSIVE AncestorsOf(_)
AncestorsOf(s) ==
    IF s = get_start_state THEN {}
    ELSE {Parent(s)} \cup AncestorsOf(Parent(s))

\* During the first call of a fresh player every expanded state with a
\* non-empty children list has N = 1 + the sum of N of its children.
BalancedInFirstCall ==
    (nCalls = 1 /\ TerminalStatesHaveNoActions) =>
        \A p \in DOMAIN children : Len(children[p]) > 0 => VisitBalance(p)

\* A second call, from a state below an expanded one, has run a rollout.
CalledAgainBelow ==
    /\ nCalls = 2
    /\ TerminalStatesHaveNoActions
    /\ ~is_terminal_state(root)
    /\ root # get_start_state
    /\ rollouts >= 1
    /\ Parent(root) \in DOMAIN children

\* C18: for a fresh player during a single get_action call on a tree whose
\* terminal states have no legal actions, after every rollout each expanded
\* state p with a non-empty children list satisfies N[p] = 1 + the sum of
\* N[c] over its children c; the equality stops holding for the ancestors of
\* the new root once get_action is called again from a descendant state.
C18_VisitBalance ==
    /\ BalancedInFirstCall
    /\ CalledAgainBelow =>
           \A a \in AncestorsOf(root) \cap DOMAIN children : ~VisitBalance(a)

\* C18 as the code has it: the equality stops holding for the state the new
\* root was reached from, once a rollout of the new call is done, and goes on
\* holding for the expanded states above that one.
C18_VisitBalanceParent ==
    /\ BalancedInFirstCall
    /\ CalledAgainBelow =>
           /\ ~VisitBalance(Parent(root))
           /\ N[Parent(root)] < 1 + SumN(children[Parent(root)])
           /\ \A a \in AncestorsOf(Parent(root)) \cap DOMAIN children : VisitBalance(a)

\* The second call runs two levels below the root of the first: the equality
\* is lost in between and kept at the first root.
C18_Witness ==
    /\ CalledAgainBelow
    /\ get_start_state \in AncestorsOf(Parent(root)) \cap DOMAIN children
    /\ VisitBalance(get_start_state)
    /\ ~VisitBalance(Parent(root))
    /\ N[get_start_state] >= 3

===========================================================================
